---- MODULE Spec2Model ----
(***************************************************************************)
(* Systematic_reviewer_AI: the literature-review pipeline coordinators     *)
(* (main.py, the command-line run; app.py, the Streamlit page) and the     *)
(* stage functions they call (screener, downloader, assessor,              *)
(* data_manager, pubmed, report generator), over the files of data/.       *)
(*                                                                         *)
(* The files of data/ are part of the state: they outlive a run and a UI   *)
(* session, so the initial state holds whatever an earlier session left.   *)
(* External services (PubMed, Unpaywall, PMC, the LLM server) are inputs   *)
(* chosen per call.  Articles are identified by their PMID; the XML        *)
(* payload lists them in ascending PMID order, and so does the ledger.     *)
(***************************************************************************)
EXTENDS Integers, Sequences, FiniteSets, TLC

\* Number of articles of the bibliographic universe (PMIDs 1..NumArticles).
NumArticles == 2

Pmids == 1..NumArticles

NoStatus == "-"

VARIABLES
  csv,      \* data/tables/articles.csv, the article ledger
  xml,      \* data/raw/articles.xml, the (filtered) raw payload
  pdfs,     \* data/pdf/<pmid>.pdf : "none" | "full" | "partial"
  teis,     \* data/tei/<pmid>.xml : the set of PMIDs with a converted text
  tables,   \* extracted_pico.csv, rob_assessment.csv, screening_results.csv
  report,   \* data/report*.md : the statistics the last report was given
  stats,    \* st.session_state['stats'] of the UI session
  exc,      \* the exception that left the last handler ("none" if it returned)
  op,       \* the last operation performed
  scr,      \* what the last screen_abstracts call returned
  retr,     \* what the last download_pdfs_from_xml call did and returned
  conv,     \* the PMIDs submitted to the conversion service in the last pipeline
  ext,      \* the PMIDs submitted to RoB assessment / PICO extraction
  cli,      \* the outcome of the last command-line run
  srch,     \* what the last count probe (fetch_pmids, max_ret = 1) was answered
  fetch,    \* what the last record fetch (fetch_abstracts and the year filter) did
  prs,      \* what the parsing sites made of the last judge output
  qry,      \* the search specification last given to the query builders, and their queries
  svc,      \* the external call in progress, and the calls the run has made
  dir       \* the entries of the data directories, one by one, around a clearing

vars == <<csv, xml, pdfs, teis, tables, report, stats, exc, op, scr, retr, conv, ext, cli,
          srch, fetch, prs, qry, svc, dir>>

----------------------------------------------------------------------------
(* Small helpers *)

Min(a, b) == IF a < b THEN a ELSE b

\* the set of functions f on S with f[i] \in D[i]: the inputs of a batch
RECURSIVE EnvFns(_, _)
EnvFns(S, D) ==
  IF S = {} THEN {<<>>}
  ELSE LET i == CHOOSE x \in S : \A y \in S : x <= y
       IN  {(i :> o) @@ f : o \in D[i], f \in EnvFns(S \ {i}, D)}

ZeroStats == [total_found |-> 0, screened |-> 0, excluded |-> 0, included |-> 0, retrieved |-> 0]

\* The ledger: its rows (PMIDs), its screening columns, the values of the
\* screening_decision column and of the pdf_download_status column.  (The
\* reasons are written to the file and never read back by any stage; they
\* are kept in the call record scr.)
NoCsv == [exists |-> FALSE, rows |-> {}, cols |-> "none",
          decision |-> [i \in Pmids |-> NoStatus],
          status |-> [i \in Pmids |-> NoStatus],
          mult |-> [i \in Pmids |-> 0],
          order |-> <<>>]

\* the PMIDs of a set in ascending order
RECURSIVE AscendingSeq(_)
AscendingSeq(S) ==
  IF S = {} THEN <<>>
  ELSE LET i == CHOOSE x \in S : \A y \in S : x <= y
       IN  <<i>> \o AscendingSeq(S \ {i})

\* the orders in which a frame can hold the rows of a set of PMIDs
Orders(S) ==
  {q \in [1..Cardinality(S) -> S] : \A i \in S : \E k \in 1..Cardinality(S) : q[k] = i}

\* parse_and_save_articles_csv: one row for each article of the payload, in
\* payload order, so each PMID once (mult is the number of rows that hold a
\* PMID, order the PMIDs from the first row to the last)
NewLedger(ids) ==
  [NoCsv EXCEPT !.exists = TRUE, !.rows = ids,
                !.mult = [i \in Pmids |-> IF i \in ids THEN 1 ELSE 0],
                !.order = AscendingSeq(ids)]

NoXml == [exists |-> FALSE, ids |-> {}, doi |-> {}, pmc |-> {}]

NoScr == [called |-> FALSE, raised |-> "none", rows |-> {},
          decision |-> [i \in Pmids |-> NoStatus],
          reason |-> [i \in Pmids |-> NoStatus],
          answer |-> [i \in Pmids |-> NoStatus],
          test |-> NoStatus, cols |-> "none", order |-> <<>>]

NoRetr == [called |-> FALSE, raised |-> "none", allowed |-> {}, reached |-> {},
           log |-> [i \in Pmids |-> <<>>],
           status |-> [i \in Pmids |-> NoStatus],
           returned |-> [i \in Pmids |-> NoStatus]]

----------------------------------------------------------------------------
(* src/ingest/downloader.py : the retrieval stage *)

\* What the external services answer for one record of a retrieval batch.
\*   upw : the Unpaywall resolver: "error" (request failed), "nolink" (no
\*         open-access location), "link" (a PDF URL)
\*   dl  : the download of that URL: "ok", "reqerr" (RequestException before
\*         a byte is written), "partial" (RequestException while streaming:
\*         the file is left open-written), "oserror" (open/write fails)
\*   pmc : the PMC fetch: "ok", "fail" (not a PDF, or RequestException before
\*         a byte is written), "partial", "oserror"
UpwAnswers == {"error", "nolink", "link"}
DlAnswers == {"ok", "reqerr", "partial", "oserror"}
PmcAnswers == {"ok", "fail", "partial", "oserror"}

\* Only the answers the code can ask for are enumerated: no DOI, no resolver
\* call; no link, no download; step 1 succeeded or raised, no PMC call.
RetrAnswersFor(hasPdf, hasDoi, hasPmc) ==
  IF hasPdf THEN {[upw |-> "nolink", dl |-> "ok", pmc |-> "ok"]}
  ELSE {o \in [upw : (IF hasDoi THEN UpwAnswers ELSE {"nolink"}),
               dl : DlAnswers, pmc : PmcAnswers] :
          /\ (o.upw # "link" => o.dl = "ok")
          /\ ((~hasPmc \/ (o.upw = "link" /\ o.dl \in {"ok", "oserror"})) => o.pmc = "ok")}

\* get_unpaywall_pdf_url: every exception is caught; None unless a link is found
get_unpaywall_pdf_url(hasDoi, answer) ==
  IF ~hasDoi THEN "None"
  ELSE IF answer = "link" THEN "url" ELSE "None"

\* download_pdf_from_url: only requests' RequestException is caught
download_pdf_from_url(answer, file) ==
  [ret    |-> answer = "ok",
   raised |-> IF answer = "oserror" THEN "OSError" ELSE "none",
   file   |-> CASE answer = "ok" -> "full"
                [] answer = "partial" -> "partial"
                [] OTHER -> file]

\* try_pmc_download: only requests' RequestException is caught
try_pmc_download(hasPmc, answer, file) ==
  IF ~hasPmc THEN [ret |-> FALSE, raised |-> "none", file |-> file]
  ELSE [ret    |-> answer = "ok",
        raised |-> IF answer = "oserror" THEN "OSError" ELSE "none",
        file   |-> CASE answer = "ok" -> "full"
                     [] answer = "partial" -> "partial"
                     [] OTHER -> file]

\* Strategy 1 of the loop body (Unpaywall): status, downloaded flag, calls made
Strategy1(hasDoi, answer, file) ==
  IF ~hasDoi
  THEN [status |-> NoStatus, downloaded |-> FALSE, raised |-> "none", file |-> file, log |-> <<>>]
  ELSE LET url == get_unpaywall_pdf_url(hasDoi, answer.upw)
           call1 == [src |-> "Unpaywall", res |-> answer.upw]
       IN  IF url = "None"
           THEN [status |-> NoStatus, downloaded |-> FALSE, raised |-> "none",
                 file |-> file, log |-> <<call1>>]
           ELSE LET d == download_pdf_from_url(answer.dl, file)
                    call2 == [src |-> "UnpaywallDownload", res |-> answer.dl]
                IN  [status     |-> IF d.raised # "none" THEN NoStatus
                                    ELSE IF d.ret THEN "Downloaded (Unpaywall)"
                                    ELSE "Download Failed (Unpaywall)",
                     downloaded |-> d.ret,
                     raised     |-> d.raised,
                     file       |-> d.file,
                     log        |-> <<call1, call2>>]

\* A faulty variant of strategy 2, which does not look at the downloaded flag:
\* PMC is fetched after Unpaywall has delivered the file.  (Property C10 tells
\* it from Strategy2.)
Strategy2Always(s1, hasPmc, answer) ==
  IF s1.raised # "none" \/ ~hasPmc THEN s1
  ELSE LET p == try_pmc_download(hasPmc, answer.pmc, s1.file)
           call3 == [src |-> "PMC", res |-> answer.pmc]
       IN  [status     |-> IF p.raised # "none" THEN s1.status
                           ELSE IF p.ret THEN "Downloaded (PMC)" ELSE s1.status,
            downloaded |-> p.ret,
            raised     |-> p.raised,
            file       |-> p.file,
            log        |-> Append(s1.log, call3)]

\* Strategy 2 of the loop body (PubMed Central), entered if not downloaded
Strategy2(s1, hasPmc, answer) ==
  IF s1.downloaded \/ s1.raised # "none" \/ ~hasPmc THEN s1
  ELSE LET p == try_pmc_download(hasPmc, answer.pmc, s1.file)
           call3 == [src |-> "PMC", res |-> answer.pmc]
       IN  [status     |-> IF p.raised # "none" THEN s1.status
                           ELSE IF p.ret THEN "Downloaded (PMC)" ELSE s1.status,
            downloaded |-> p.ret,
            raised     |-> p.raised,
            file       |-> p.file,
            log        |-> Append(s1.log, call3)]

\* One iteration of the loop of download_pdfs_from_xml
RetrieveOne(file, hasDoi, hasPmc, answer) ==
  IF file # "none"
  THEN [status |-> "Already Downloaded", downloaded |-> TRUE, raised |-> "none",
        file |-> file, log |-> <<>>]
  ELSE LET s2 == Strategy2(Strategy1(hasDoi, answer, file), hasPmc, answer)
       IN  IF s2.raised = "none" /\ ~s2.downloaded
           THEN [s2 EXCEPT !.status = "No OA Source Found"]
           ELSE s2

\* A loop that returns after the first article it processes, handing the
\* caller one status at a time
DownloadFirst(k, todo, x, answers, acc) ==
  IF todo = {} THEN acc
  ELSE LET i == CHOOSE j \in todo : \A m \in todo : j <= m
           r == RetrieveOne(acc.pdfs[i], i \in x.doi, i \in x.pmc, answers[i])
       IN  [pdfs    |-> [acc.pdfs EXCEPT ![i] = r.file],
            status  |-> [acc.status EXCEPT ![i] = r.status],
            log     |-> [acc.log EXCEPT ![i] = r.log],
            reached |-> acc.reached \cup {i},
            raised  |-> r.raised]

\* The loop over the articles to process, in document order; an exception
\* leaves the loop and the function.
RECURSIVE DownloadLoop(_, _, _, _, _)
DownloadLoop(k, todo, x, answers, acc) ==
  IF k > NumArticles \/ acc.raised # "none" THEN acc
  ELSE IF k \notin todo THEN DownloadLoop(k + 1, todo, x, answers, acc)
  ELSE LET r == RetrieveOne(acc.pdfs[k], k \in x.doi, k \in x.pmc, answers[k])
       IN  DownloadLoop(k + 1, todo, x, answers,
             [pdfs    |-> [acc.pdfs EXCEPT ![k] = r.file],
              status  |-> [acc.status EXCEPT ![k] = r.status],
              log     |-> [acc.log EXCEPT ![k] = r.log],
              reached |-> acc.reached \cup {k},
              raised  |-> r.raised])

\* A faulty variant of download_pdfs_from_xml, which does not filter the
\* articles of the payload by allowed_pmids.  (Property C3 tells it from
\* download_pdfs_from_xml.)
download_pdfs_from_xml_unfiltered(x, files, allowed, answers) ==
  IF ~x.exists
  THEN [pdfs |-> files,
        call |-> [NoRetr EXCEPT !.called = TRUE, !.raised = "FileNotFoundError",
                                !.allowed = allowed]]
  ELSE LET acc == DownloadLoop(1, x.ids, x, answers,
                     [pdfs |-> files, status |-> [i \in Pmids |-> NoStatus],
                      log |-> [i \in Pmids |-> <<>>], reached |-> {}, raised |-> "none"])
       IN  [pdfs |-> acc.pdfs,
            call |-> [called   |-> TRUE,
                      raised   |-> acc.raised,
                      allowed  |-> allowed,
                      reached  |-> acc.reached,
                      log      |-> acc.log,
                      status   |-> acc.status,
                      returned |-> IF acc.raised # "none"
                                   THEN [i \in Pmids |-> NoStatus]
                                   ELSE acc.status]]

\* download_pdfs_from_xml(xml_path, output_dir, allowed_pmids): the files it
\* leaves, and the record of the call (what it returned is "returned").
download_pdfs_from_xml(x, files, allowed, answers) ==
  IF ~x.exists
  THEN [pdfs |-> files,
        call |-> [NoRetr EXCEPT !.called = TRUE, !.raised = "FileNotFoundError",
                                !.allowed = allowed]]
  ELSE LET todo == x.ids \cap allowed
           acc  == DownloadLoop(1, todo, x, answers,
                     [pdfs |-> files, status |-> [i \in Pmids |-> NoStatus],
                      log |-> [i \in Pmids |-> <<>>], reached |-> {}, raised |-> "none"])
       IN  [pdfs |-> acc.pdfs,
            call |-> [called   |-> TRUE,
                      raised   |-> acc.raised,
                      allowed  |-> allowed,
                      reached  |-> acc.reached,
                      log      |-> acc.log,
                      status   |-> acc.status,
                      returned |-> IF acc.raised # "none"
                                   THEN [i \in Pmids |-> NoStatus]
                                   ELSE acc.status]]

\* the answers a retrieval batch can get, for the records it will process,
\* each drawn from A
RetrAnswers(x, files, allowed, A) ==
  EnvFns(Pmids, [i \in Pmids |->
     IF x.exists /\ i \in x.ids \cap allowed
     THEN RetrAnswersFor(files[i] # "none", i \in x.doi, i \in x.pmc) \cap A
     ELSE {[upw |-> "nolink", dl |-> "ok", pmc |-> "ok"]}])

AllRetrAnswers == [upw : UpwAnswers, dl : DlAnswers, pmc : PmcAnswers]

----------------------------------------------------------------------------
(* src/llm/client.py and src/screen/screener.py : the screening stage *)

\* What the LLM server does on one call.
\*   "raise"   : the openai client raises an error other than
\*               APIConnectionError (an HTTP error status, a bad request)
\*   "none"    : APIConnectionError, or an empty completion
\*   "nojson"  : text with no brace-delimited block
\*   "badjson" : a brace-delimited block that is not JSON
\*   "incl", "excl" : a block whose decision is "Included" / "Excluded"
\*   "other"   : a block with no decision key or another value ("Maybe")
\*   "notexcl" : a block whose decision says it is not an exclusion but
\*               holds the letters of "exclude" ("Do not exclude")
JudgeAnswers == {"raise", "none", "nojson", "badjson", "incl", "excl", "other", "notexcl"}
TestAnswers == {"ok", "none", "raise"}

\* LLMClient.get_completion: only APIConnectionError is caught
get_completion(answer) ==
  CASE answer = "raise" -> [raised |-> "APIError", content |-> "None"]
    [] answer = "none"  -> [raised |-> "none", content |-> "None"]
    [] OTHER            -> [raised |-> "none", content |-> answer]

\* the body of the loop of screen_abstracts: the decision and reason of a record
ScreenOne(answer) ==
  LET c == get_completion(answer)
  IN  IF c.raised # "none"
      THEN [decision |-> "Included", reason |-> "Error during screening"]
      ELSE CASE c.content = "None"    -> [decision |-> "Included", reason |-> "No response from LLM"]
             [] c.content = "nojson"  -> [decision |-> "Included", reason |-> "No JSON found in response"]
             [] c.content = "badjson" -> [decision |-> "Included", reason |-> "JSON Decode Error"]
             [] c.content = "incl"    -> [decision |-> "Included", reason |-> "judge"]
             [] c.content = "other"   -> [decision |-> "Included", reason |-> "judge"]
             [] c.content = "excl"    -> [decision |-> "Excluded", reason |-> "judge"]
             [] c.content = "notexcl" -> [decision |-> "Excluded", reason |-> "judge"]

\* The screening columns of a ledger: "none", "plain" (screening_decision,
\* screening_reason), "xy" (screening_decision_x/_y: what pandas' merge makes
\* of a column both frames hold), "xyplain" (both).
HasPlain(cols) == cols \in {"plain", "xyplain"}
DecisionColumns(cols) ==
  CASE cols = "none" -> 0 [] cols = "plain" -> 1 [] cols = "xy" -> 2 [] cols = "xyplain" -> 3

\* articles_df['screening_decision'] = 'Included' : sets or adds the column
AssignColumns(cols) == IF cols \in {"none", "plain"} THEN "plain" ELSE "xyplain"

\* pd.merge(articles_df, results_df, on='pmid', how='left'): a column of both
\* frames is split into _x and _y; splitting into names that exist already is
\* refused (MergeError, pandas 2).
MergeColumns(cols) ==
  CASE cols = "none" -> "plain"
    [] cols = "plain" -> "xy"
    [] cols = "xy" -> "xyplain"
    [] cols = "xyplain" -> "MergeError"

\* a left merge on pmid that pairs every row with the rows of every PMID
CrossRows(mult) ==
  LET total == Cardinality({i \in Pmids : mult[i] > 0})
  IN  [i \in Pmids |-> mult[i] * total]

\* pd.merge(articles_df, results_df, on='pmid', how='left'): each ledger row
\* of a PMID is paired with each result row of that PMID, and the results
\* hold one row for each ledger row
MergeRows(mult) == [i \in Pmids |-> mult[i] * mult[i]]

\* results.append({'pmid': pmid, 'screening_decision': decision, ...}) for
\* each row of the frame, from the first to the last
ScreenResults(order, answers) ==
  [k \in 1..Len(order) |-> [pmid |-> order[k],
                            decision |-> ScreenOne(answers[order[k]]).decision,
                            reason |-> ScreenOne(answers[order[k]]).reason]]

\* results attached to the rows by position, the last result to the first row
ReversedResults(order, results) ==
  [i \in Pmids |->
     IF \E k \in 1..Len(order) : order[k] = i
     THEN LET k == CHOOSE j \in 1..Len(order) : order[j] = i
          IN  [decision |-> results[Len(order) + 1 - k].decision,
               reason |-> results[Len(order) + 1 - k].reason]
     ELSE [decision |-> NoStatus, reason |-> NoStatus]]

\* pd.merge(articles_df, results_df, on='pmid', how='left'): each row gets the
\* decision and reason of the result that holds its PMID
MergeResults(order, results) ==
  [i \in Pmids |->
     IF \E k \in 1..Len(results) : results[k].pmid = i
     THEN LET k == CHOOSE j \in 1..Len(results) : results[j].pmid = i
          IN  [decision |-> results[k].decision, reason |-> results[k].reason]
     ELSE [decision |-> NoStatus, reason |-> NoStatus]]

\* screen_abstracts(articles_df, picos_data): the returned frame and the
\* record of the call
screen_abstracts(df, test, answers) ==
  LET t == get_completion(test)
      blank == [i \in Pmids |-> NoStatus]
      call == [NoScr EXCEPT !.called = TRUE, !.rows = df.rows, !.test = test,
                            !.cols = df.cols, !.order = df.order]
  IN  IF t.raised # "none"
      THEN [df |-> df, call |-> [call EXCEPT !.raised = t.raised]]
      ELSE IF t.content = "None"
      THEN LET dec == [i \in Pmids |-> IF i \in df.rows THEN "Included" ELSE NoStatus]
               rea == [i \in Pmids |-> IF i \in df.rows THEN "LLM Unavailable" ELSE NoStatus]
           IN  [df   |-> [df EXCEPT !.cols = AssignColumns(df.cols), !.decision = dec],
                call |-> [call EXCEPT !.decision = dec, !.reason = rea,
                                      !.cols = AssignColumns(df.cols)]]
      ELSE LET merged == MergeResults(df.order, ScreenResults(df.order, answers))
               dec == [i \in Pmids |-> merged[i].decision]
               rea == [i \in Pmids |-> merged[i].reason]
               ans == [i \in Pmids |-> IF i \in df.rows THEN answers[i] ELSE NoStatus]
               m   == MergeColumns(df.cols)
           IN  IF m = "MergeError"
               THEN [df |-> df, call |-> [call EXCEPT !.raised = "MergeError", !.answer = ans]]
               ELSE [df   |-> [df EXCEPT !.cols = m,
                                         !.decision = IF HasPlain(m) THEN dec ELSE blank,
                                         !.mult = MergeRows(df.mult)],
                     call |-> [call EXCEPT !.decision = dec, !.reason = rea,
                                           !.answer = ans, !.cols = m]]

\* the judge's answers for the rows of a ledger, each drawn from A
ScreenAnswers(df, A) ==
  EnvFns(Pmids, [i \in Pmids |-> IF i \in df.rows THEN A ELSE {NoStatus}])

\* screened_df[screened_df['screening_decision'] == 'Included']['pmid']
IncludedPmids(df) == {i \in df.rows : df.decision[i] = "Included"}

----------------------------------------------------------------------------
(* src/parse/grobid_client.py, src/rob/assessor.py : conversion, extraction *)

\* grobid_client.process_pdf(pdf_path), as both coordinators call it: the
\* module defines the class GrobidClient and no function process_pdf, so the
\* attribute lookup fails before any service is contacted.
grobid_client_process_pdf == [raised |-> "AttributeError", tei |-> "None"]

\* The conversion loop of the coordinators over the downloaded PMIDs, in the
\* order of the status dictionary: every downloaded PMID has its file, so the
\* first one is submitted and the call raises.
ConversionLoop(downloaded) ==
  IF downloaded = {}
  THEN [submitted |-> {}, converted |-> {}, raised |-> "none"]
  ELSE [submitted |-> {CHOOSE i \in downloaded : \A j \in downloaded : i <= j},
        converted |-> {},
        raised    |-> grobid_client_process_pdf.raised]

\* What the judge answers for one converted text: a JSON block ("json"), text
\* without one or nothing ("nojson"), or the client raises ("raise").
RobAnswers == {"json", "nojson"}
PicoAnswers == {"json", "nojson", "raise"}

\* batch_assess_rob(tei_dir, output_csv_path): every .xml file of the
\* directory is assessed; assess_risk_of_bias catches every exception.
batch_assess_rob(teiFiles, answers, table) ==
  LET rows == {i \in teiFiles : answers[i] = "json"}
  IN  [assessed |-> teiFiles,
       rows     |-> rows,
       table    |-> IF rows # {} THEN TRUE ELSE table]

\* The PICO extraction loop of app.py over every .xml file of the TEI
\* directory: llm.get_completion is called outside the try block.
RECURSIVE PicoLoop(_, _, _, _)
PicoLoop(k, teiFiles, answers, acc) ==
  IF k > NumArticles \/ acc.raised # "none" THEN acc
  ELSE IF k \notin teiFiles THEN PicoLoop(k + 1, teiFiles, answers, acc)
  ELSE LET c == get_completion(answers[k])
       IN  PicoLoop(k + 1, teiFiles, answers,
             [judged |-> acc.judged \cup {k},
              rows   |-> IF c.raised = "none" /\ c.content = "json"
                         THEN acc.rows \cup {k} ELSE acc.rows,
              raised |-> c.raised])

ExtractPico(teiFiles, answers, table) ==
  LET acc == PicoLoop(1, teiFiles, answers, [judged |-> {}, rows |-> {}, raised |-> "none"])
  IN  [judged |-> acc.judged,
       raised |-> acc.raised,
       rows   |-> IF acc.raised = "none" THEN acc.rows ELSE {},
       table  |-> IF acc.raised = "none" /\ acc.rows # {} THEN TRUE ELSE table]

ExtractAnswers(teiFiles, A) ==
  EnvFns(Pmids, [i \in Pmids |-> IF i \in teiFiles THEN A ELSE {NoStatus}])

----------------------------------------------------------------------------
(* src/utils/data_manager.py, src/ingest/pubmed.py, src/report/generator.py *)

\* clear_generated_data_files(): articles.xml, retrieved_pmids.csv,
\* articles.csv and the .pdf files of data/pdf are removed; nothing else is.
clear_generated_data_files(d) ==
  [d EXCEPT !.csv = NoCsv, !.xml = NoXml, !.pdfs = [i \in Pmids |-> "none"]]

\* What PubMed's esearch answers: a failed request, or the number of ids
\* that match the query.
SearchAnswers == [fail : {TRUE}, n : {0}] \cup [fail : {FALSE}, n : 0..NumArticles]

\* fetch_pmids(query, max_ret, ...): the id list, cut to retmax; [] when the
\* request fails.  A list, not a pair.
fetch_pmids(max_ret, answer) ==
  IF answer.fail THEN <<>>
  ELSE [j \in 1..Min(max_ret, answer.n) |-> j]

\* "a, b = value" : unpacking a list into two names
UnpackPair(list) ==
  IF Len(list) = 2
  THEN [raised |-> "none", first |-> list[1], second |-> list[2]]
  ELSE [raised |-> "ValueError", first |-> 0, second |-> 0]

\* generate_prisma_mermaid(stats): the counts of the PRISMA diagram
generate_prisma_mermaid(st) ==
  [identified |-> st.total_found, screened |-> st.screened, excluded |-> st.excluded,
   sought |-> st.included, not_retrieved |-> st.included - st.retrieved,
   retrieved |-> st.retrieved]

\* generate_report(stats, ...): the report file is written; what it shows is
\* computed from the statistics it is given (no stage reads the file back).
generate_report(st) == [exists |-> TRUE]


----------------------------------------------------------------------------
(* The query builders: construct_search_query of main.py and of app.py.    *)
(* A field of the research question is absent (picos.get gives None) or a  *)
(* text, a sequence of characters: a letter, a space, a tab.  The texts    *)
(* are what input(), a text box or the YAML file can hold; none is         *)
(* stripped before the builder sees it.                                    *)

Fields == <<"population", "intervention", "comparison", "outcome", "study_design">>

\* "", "a", "a a", "a " (a word and a trailing space), "a<tab>a"
Texts == {<<>>, <<"a">>, <<"a", " ", "a">>, <<"a", " ">>, <<"a", "\t", "a">>}

FieldValues == {[present |-> FALSE, text |-> <<>>]} \cup
               {[present |-> TRUE, text |-> t] : t \in Texts}

Picos == [1..Len(Fields) -> FieldValues]

\* format_part(term, field_tag) of main.py: None (the empty sequence of
\* parts) for a missing or empty term, else one part, quoted when the term
\* holds a space character
format_part(term, field_tag) ==
  IF ~term.present \/ term.text = <<>> THEN <<>>
  ELSE IF \E i \in 1..Len(term.text) : term.text[i] = " "
  THEN << <<"\"">> \o term.text \o <<"\"", field_tag>> >>
  ELSE << term.text \o <<field_tag>> >>

\* format_part of app.py
format_part_ui(term, field_tag) ==
  IF ~term.present \/ term.text = <<>> THEN <<>>
  ELSE IF \E i \in 1..Len(term.text) : term.text[i] = " "
  THEN << <<"\"">> \o term.text \o <<"\"", field_tag>> >>
  ELSE << term.text \o <<field_tag>> >>

\* " AND ".join(parts)
RECURSIVE JoinAnd(_)
JoinAnd(parts) ==
  IF parts = <<>> THEN <<>>
  ELSE IF Len(parts) = 1 THEN parts[1]
  ELSE parts[1] \o <<" AND ">> \o JoinAnd(Tail(parts))

\* construct_search_query(picos) of main.py
construct_search_query(picos) ==
  JoinAnd(format_part(picos[1], "[tiab]") \o format_part(picos[2], "[tiab]")
          \o format_part(picos[3], "[tiab]") \o format_part(picos[4], "[tiab]")
          \o format_part(picos[5], "[pt]"))

\* construct_search_query(picos) of app.py
construct_search_query_ui(picos) ==
  JoinAnd(format_part_ui(picos[1], "[tiab]") \o format_part_ui(picos[2], "[tiab]")
          \o format_part_ui(picos[3], "[tiab]") \o format_part_ui(picos[4], "[tiab]")
          \o format_part_ui(picos[5], "[pt]"))

NoReport == [exists |-> FALSE]

NoConv == [submitted |-> {}, converted |-> {}, raised |-> "none"]
NoExt == [rob |-> {}, pico |-> {}, robRows |-> {}, picoRows |-> {}]
NoCli == [outcome |-> "none", stats |-> ZeroStats, report |-> FALSE, step |-> "none"]
NoSrch == [called |-> FALSE, answer |-> [fail |-> FALSE, n |-> 0], ids |-> <<>>,
           raised |-> "none", query |-> <<>>]
NoFetch == [called |-> FALSE, by |-> "none", pmids |-> 0, answer |-> "none",
            years |-> <<>>, kept |-> <<>>, raised |-> "none", next |-> "none"]

NoPrs == [called |-> FALSE]
NoQry == [called |-> FALSE]
NoDir == [cleared |-> FALSE]
NoSvc == [state |-> "idle", service |-> "none", made |-> 0, outcome |-> "none"]

\* the files of data/
Disk == [csv |-> csv, xml |-> xml, pdfs |-> pdfs, teis |-> teis,
         tables |-> tables, report |-> report]

----------------------------------------------------------------------------
(* The initial state: a fresh UI session (init_session_state) over the     *)
(* files an earlier session left: possibly a ledger and payload as the     *)
(* search writes them (no screening columns yet), possibly converted texts *)
(* in data/tei, which no operation ever removes.                           *)

Init ==
  /\ \E k \in 0..NumArticles :
       \E d \in {{}, 1..k} :
          /\ csv = IF k = 0 THEN NoCsv ELSE NewLedger(1..k)
          /\ xml = IF k = 0 THEN NoXml
                   ELSE [exists |-> TRUE, ids |-> 1..k, doi |-> d, pmc |-> d]
  /\ pdfs = [i \in Pmids |-> "none"]
  /\ teis \in {{}, Pmids}
  /\ tables = [pico |-> FALSE, rob |-> FALSE, screening |-> FALSE]
  /\ report = NoReport
  /\ stats = ZeroStats
  /\ exc = "none"
  /\ op = "init"
  /\ scr = NoScr
  /\ retr = NoRetr
  /\ conv = NoConv
  /\ ext = NoExt
  /\ cli = NoCli
  /\ srch = NoSrch
  /\ fetch = NoFetch
  /\ prs = NoPrs
  /\ qry = NoQry
  /\ svc = NoSvc
  /\ dir = NoDir

----------------------------------------------------------------------------
(* app.py : the handlers of the Streamlit page *)

\* In the coordinators' specification an external answer stands for every
\* answer with the same effect on the coordinator (the decision; the status,
\* the file left and the exception).  The stage specifications below draw
\* from the full sets.
CoordJudgeAnswers == {"incl", "excl", "raise"}
CoordRetrAnswers ==
  {o \in AllRetrAnswers : /\ o.upw \in {"nolink", "link"}
                          /\ o.dl \in {"ok", "oserror"}
                          /\ o.pmc \in {"ok", "fail"}}

\* sidebar, "Reset All Data"
UiReset ==
  LET d == clear_generated_data_files(Disk)
  IN  /\ csv' = d.csv /\ xml' = d.xml /\ pdfs' = d.pdfs
      /\ stats' = ZeroStats
      /\ exc' = "none" /\ op' = "reset"
      /\ scr' = NoScr /\ retr' = NoRetr /\ conv' = NoConv /\ ext' = NoExt /\ cli' = NoCli
      /\ srch' = NoSrch
      /\ UNCHANGED <<teis, tables, report, fetch, prs, qry, svc, dir>>

\* the research questions the coordinators are run with: every field empty
\* or missing, and a population alone
EmptyPicos == [k \in 1..Len(Fields) |-> [present |-> FALSE, text |-> <<>>]]
SearchSpecs == {EmptyPicos, [EmptyPicos EXCEPT ![1] = [present |-> TRUE, text |-> <<"a">>]]}

\* tab 1, "Search PubMed": the count probe's result is unpacked as a pair
UiSearch ==
  \E a \in SearchAnswers, picos \in SearchSpecs :
    LET query == construct_search_query_ui(picos)
        ids == fetch_pmids(1, a)
        u == UnpackPair(ids)
    IN  /\ srch' = [called |-> TRUE, answer |-> a, ids |-> ids, raised |-> u.raised,
                     query |-> query]
        /\ IF u.raised # "none"
           THEN /\ exc' = u.raised
                /\ stats' = stats
           ELSE \* total_count is a PMID string: "total_count > 0" raises
                /\ exc' = "TypeError"
                /\ stats' = [stats EXCEPT !.total_found = u.second]
        /\ op' = "search"
        /\ scr' = NoScr /\ retr' = NoRetr /\ conv' = NoConv /\ ext' = NoExt /\ cli' = NoCli
        /\ UNCHANGED <<csv, xml, pdfs, teis, tables, report, fetch, prs, qry, svc, dir>>

\* tab 2, "Start Automated Screening"
UiScreen ==
  /\ csv.exists
  /\ \E test \in TestAnswers :
     \E answers \in (IF test = "ok" THEN ScreenAnswers(csv, CoordJudgeAnswers)
                     ELSE ScreenAnswers(csv, {"none"})) :
       LET r == screen_abstracts(csv, test, answers)
           n == Cardinality(r.df.rows)
           inc == Cardinality(IncludedPmids(r.df))
       IN  /\ scr' = r.call
           /\ IF r.call.raised # "none"
              THEN /\ exc' = r.call.raised
                   /\ UNCHANGED <<csv, tables, stats>>
              ELSE /\ csv' = r.df
                   /\ tables' = [tables EXCEPT !.screening = TRUE]
                   /\ IF HasPlain(r.df.cols)
                      THEN /\ stats' = [stats EXCEPT !.screened = n, !.included = inc,
                                                      !.excluded = n - inc]
                           /\ exc' = "none"
                      ELSE \* screened_df['screening_decision'] : no such column
                           /\ stats' = [stats EXCEPT !.screened = n]
                           /\ exc' = "KeyError"
  /\ op' = "screen"
  /\ retr' = NoRetr /\ conv' = NoConv /\ ext' = NoExt /\ cli' = NoCli /\ srch' = NoSrch
  /\ UNCHANGED <<xml, pdfs, teis, report, fetch, prs, qry, svc, dir>>

\* app.py: "Downloaded" in v or "Already" in v
IsSuccessUi(v) ==
  v \in {"Downloaded (Unpaywall)", "Downloaded (PMC)", "Already Downloaded"}

\* main.py: v == "Downloaded" or v == "Already Downloaded" or ...
IsSuccessCli(v) ==
  v \in {"Downloaded", "Already Downloaded", "Downloaded (Unpaywall)", "Downloaded (PMC)"}

\* tab 3, "Run Analysis Pipeline"
UiPipeline ==
  /\ csv.exists /\ HasPlain(csv.cols) /\ IncludedPmids(csv) # {}
  /\ \E answers \in RetrAnswers(xml, pdfs, IncludedPmids(csv), CoordRetrAnswers) :
       LET d == download_pdfs_from_xml(xml, pdfs, IncludedPmids(csv), answers)
           downloaded == {i \in Pmids : IsSuccessUi(d.call.returned[i])}
           c == ConversionLoop(downloaded)
       IN  /\ retr' = d.call
           /\ pdfs' = d.pdfs
           /\ IF d.call.raised # "none"
              THEN /\ exc' = d.call.raised
                   /\ conv' = NoConv /\ ext' = NoExt
                   /\ UNCHANGED <<csv, stats, tables>>
              ELSE \* df['pdf_download_status'] = df['pmid'].map(...) ; df.to_csv
                   /\ csv' = [csv EXCEPT !.status = d.call.returned]
                   /\ stats' = [stats EXCEPT !.retrieved = Cardinality(downloaded)]
                   /\ conv' = c
                   /\ IF c.raised # "none"
                      THEN /\ exc' = c.raised
                           /\ ext' = NoExt
                           /\ UNCHANGED tables
                      ELSE \E ra \in ExtractAnswers(teis, RobAnswers) :
                           \E pa \in ExtractAnswers(teis, PicoAnswers) :
                             LET rob == batch_assess_rob(teis, ra, tables.rob)
                                 pico == ExtractPico(teis, pa, tables.pico)
                             IN  /\ ext' = [rob |-> rob.assessed, pico |-> pico.judged,
                                             robRows |-> rob.rows, picoRows |-> pico.rows]
                                 /\ tables' = [tables EXCEPT !.rob = rob.table,
                                                              !.pico = pico.table]
                                 /\ exc' = pico.raised
  /\ op' = "pipeline"
  /\ scr' = NoScr /\ cli' = NoCli /\ srch' = NoSrch
  /\ UNCHANGED <<xml, teis, report, fetch, prs, qry, svc, dir>>

\* tab 4, "Generate Report"
UiReport ==
  /\ report' = generate_report(stats)
  /\ exc' = "none" /\ op' = "report"
  /\ scr' = NoScr /\ retr' = NoRetr /\ conv' = NoConv /\ ext' = NoExt /\ cli' = NoCli
  /\ srch' = NoSrch
  /\ UNCHANGED <<csv, xml, pdfs, teis, tables, stats, fetch, prs, qry, svc, dir>>

----------------------------------------------------------------------------
(* main.py : one command-line run, from start to exit *)

CliRun ==
  \E clear \in BOOLEAN, proceed \in BOOLEAN :
  \E a \in (IF proceed /\ (clear \/ ~xml.exists) THEN SearchAnswers
            ELSE {[fail |-> TRUE, n |-> 0]}) :
  \E picos \in (IF proceed /\ (clear \/ ~xml.exists) THEN SearchSpecs ELSE {EmptyPicos}) :
    LET search_query == construct_search_query(picos)
        d == IF xml.exists THEN clear_generated_data_files(Disk) ELSE Disk
        ids == fetch_pmids(1, a)
        u == UnpackPair(ids)
    IN  /\ IF xml.exists /\ ~clear
           THEN \* check_and_clear_previous_run returns False
                /\ cli' = [NoCli EXCEPT !.outcome = "kept previous data"]
                /\ exc' = "none"
                /\ srch' = NoSrch
                /\ UNCHANGED <<csv, xml, pdfs>>
           ELSE /\ csv' = d.csv /\ xml' = d.xml /\ pdfs' = d.pdfs
                /\ IF ~proceed
                   THEN /\ cli' = [NoCli EXCEPT !.outcome = "stopped by user"]
                        /\ exc' = "none"
                        /\ srch' = NoSrch
                   ELSE /\ srch' = [called |-> TRUE, answer |-> a, ids |-> ids,
                                     raised |-> u.raised, query |-> search_query]
                        /\ IF u.raised # "none"
                           THEN /\ cli' = [NoCli EXCEPT !.outcome = "exception"]
                                /\ exc' = u.raised
                           ELSE \* "max_ret_user > total_count" compares int and str
                                /\ cli' = [NoCli EXCEPT !.outcome = "exception",
                                                        !.stats.total_found = u.second]
                                /\ exc' = "TypeError"
        /\ op' = "cli"
        /\ scr' = NoScr /\ retr' = NoRetr /\ conv' = NoConv /\ ext' = NoExt
        /\ UNCHANGED <<teis, tables, report, stats, fetch, prs, qry, svc, dir>>

Next == UiReset \/ UiSearch \/ UiScreen \/ UiPipeline \/ UiReport \/ CliRun

Spec == Init /\ [][Next]_vars

----------------------------------------------------------------------------
(* The screening stage on its own: screen_abstracts applied, again and      *)
(* again, to a ledger, with every answer the judge can give and the rows    *)
(* of the frame in any order.                                               *)

InitScreen ==
  /\ \E k \in 1..NumArticles :
       /\ csv = NewLedger(1..k)
       /\ xml = [exists |-> TRUE, ids |-> 1..k, doi |-> {}, pmc |-> {}]
  /\ pdfs = [i \in Pmids |-> "none"]
  /\ teis = {}
  /\ tables = [pico |-> FALSE, rob |-> FALSE, screening |-> FALSE]
  /\ report = NoReport
  /\ stats = ZeroStats
  /\ exc = "none"
  /\ op = "init"
  /\ scr = NoScr
  /\ retr = NoRetr
  /\ conv = NoConv
  /\ ext = NoExt
  /\ cli = NoCli
  /\ srch = NoSrch
  /\ fetch = NoFetch
  /\ prs = NoPrs
  /\ qry = NoQry
  /\ svc = NoSvc
  /\ dir = NoDir

ScreenStage ==
  /\ \E test \in TestAnswers :
     \E answers \in (IF test = "ok" THEN ScreenAnswers(csv, JudgeAnswers)
                     ELSE ScreenAnswers(csv, {"none"})) :
     \E order \in Orders(csv.rows) :
       LET r == screen_abstracts([csv EXCEPT !.order = order], test, answers)
       IN  /\ scr' = r.call
           /\ exc' = r.call.raised
           /\ csv' = r.df
  /\ op' = "screen"
  /\ UNCHANGED <<xml, pdfs, teis, tables, report, stats, retr, conv, ext, cli, srch, fetch, prs, qry, svc, dir>>

NextScreen == ScreenStage

SpecScreen == InitScreen /\ [][NextScreen]_vars

----------------------------------------------------------------------------
(* The retrieval stage on its own: download_pdfs_from_xml applied, again    *)
(* and again, to a payload whose records carry any identifiers, for any     *)
(* list of allowed PMIDs, with every answer the sources can give.           *)

InitRetrieve ==
  /\ \E d \in SUBSET Pmids, p \in SUBSET Pmids :
       xml = [exists |-> TRUE, ids |-> Pmids, doi |-> d, pmc |-> p]
  /\ csv = NewLedger(Pmids)
  /\ pdfs = [i \in Pmids |-> "none"]
  /\ teis = {}
  /\ tables = [pico |-> FALSE, rob |-> FALSE, screening |-> FALSE]
  /\ report = NoReport
  /\ stats = ZeroStats
  /\ exc = "none"
  /\ op = "init"
  /\ scr = NoScr
  /\ retr = NoRetr
  /\ conv = NoConv
  /\ ext = NoExt
  /\ cli = NoCli
  /\ srch = NoSrch
  /\ fetch = NoFetch
  /\ prs = NoPrs
  /\ qry = NoQry
  /\ svc = NoSvc
  /\ dir = NoDir

RetrieveStage ==
  /\ \E allowed \in SUBSET Pmids :
     \E answers \in RetrAnswers(xml, pdfs, allowed, AllRetrAnswers) :
       LET d == download_pdfs_from_xml(xml, pdfs, allowed, answers)
       IN  /\ retr' = d.call
           /\ pdfs' = d.pdfs
           /\ exc' = d.call.raised
  /\ op' = "retrieve"
  /\ UNCHANGED <<csv, xml, teis, tables, report, stats, scr, conv, ext, cli, srch, fetch, prs, qry, svc, dir>>

NextRetrieve == RetrieveStage

SpecRetrieve == InitRetrieve /\ [][NextRetrieve]_vars

----------------------------------------------------------------------------
(* The record fetch on its own: the part of both coordinators that follows  *)
(* the PMID list (fetch_abstracts, the publication-year filter, the writing *)
(* of the payload and the ledger), for any PMID list, any answer of efetch  *)
(* and any <Year> the records can carry.  Record k of the fetched payload   *)
(* is the article of PMID k.                                                *)

\* datetime.now().year
CurrentYear == 2026

\* The PubDate/Year of a record: no such node ("missing"), a node without
\* text ("empty": node.text is None), text that is not all digits ("text"),
\* digits.
Years ==
  {[kind |-> k, val |-> 0] : k \in {"missing", "empty", "text"}}
    \cup {[kind |-> "digits", val |-> y] : y \in (CurrentYear - 1)..(CurrentYear + 1)}

\* int(node.text) if node is not None and node.text.isdigit() else current_year + 1
PubYear(y) ==
  CASE y.kind = "missing" -> [raised |-> "none", year |-> CurrentYear + 1]
    [] y.kind = "empty"   -> [raised |-> "AttributeError", year |-> 0]
    [] y.kind = "text"    -> [raised |-> "none", year |-> CurrentYear + 1]
    [] y.kind = "digits"  -> [raised |-> "none", year |-> y.val]

\* the loop over root.findall(".//PubmedArticle"): the records appended to
\* filtered_articles_elements, in the order of the payload
RECURSIVE FilterLoop(_, _, _)
FilterLoop(k, years, acc) ==
  IF k > Len(years) \/ acc.raised # "none" THEN acc
  ELSE LET p == PubYear(years[k])
       IN  FilterLoop(k + 1, years,
             [raised |-> p.raised,
              kept   |-> IF p.raised = "none" /\ p.year <= CurrentYear
                         THEN Append(acc.kept, k) ELSE acc.kept])

FilterByYear(years) == FilterLoop(1, years, [raised |-> "none", kept |-> <<>>])

\* What efetch answers: the request fails ("None" is returned), the body is
\* not well-formed XML ("malformed"), the body is a PubmedArticleSet ("xml").
FetchAnswers == {"None", "malformed", "xml"}

\* fetch_abstracts(pmids): {} for an empty list, None when the request fails,
\* else the body of the response
fetch_abstracts(pmids, answer) == IF pmids = 0 THEN "{}" ELSE answer

\* ET.fromstring(articles_xml)
ET_fromstring(data) ==
  CASE data \in {"None", "{}"} -> "TypeError"
    [] data = "malformed"      -> "ParseError"
    [] OTHER                   -> "none"

\* the <Year> values of the records of a fetched payload
FetchYearsIn(Y, n, answer) ==
  IF n > 0 /\ answer = "xml" THEN [1..n -> Y] ELSE {<<>>}

FetchYears(n, answer) == FetchYearsIn(Years, n, answer)

SeqRange(q) == {q[j] : j \in 1..Len(q)}

InitFetch ==
  /\ csv = NoCsv
  /\ xml = NoXml
  /\ pdfs = [i \in Pmids |-> "none"]
  /\ teis \in {{}, Pmids}
  /\ tables = [pico |-> FALSE, rob |-> FALSE, screening |-> FALSE]
  /\ report = NoReport
  /\ stats = ZeroStats
  /\ exc = "none"
  /\ op = "init"
  /\ scr = NoScr
  /\ retr = NoRetr
  /\ conv = NoConv
  /\ ext = NoExt
  /\ cli = NoCli
  /\ srch = NoSrch
  /\ fetch = NoFetch
  /\ prs = NoPrs
  /\ qry = NoQry
  /\ svc = NoSvc
  /\ dir = NoDir

\* app.py, tab 1, after "pmids, _ = ..." : fetch, filter, save; the <Year>
\* values of the fetched records are drawn from Y
UiFetchIn(Y) ==
  \E n \in 0..NumArticles, answer \in FetchAnswers :
  \E years \in FetchYearsIn(Y, n, answer) :
    LET data == fetch_abstracts(n, answer)
        parse == ET_fromstring(data)
        f == IF parse = "none" THEN FilterByYear(years)
             ELSE [raised |-> parse, kept |-> <<>>]
    IN  /\ fetch' = [called |-> TRUE, by |-> "ui", pmids |-> n, answer |-> answer,
                      years |-> years, kept |-> f.kept, raised |-> f.raised,
                      next |-> "none"]
        /\ exc' = f.raised
        /\ IF f.raised # "none"
           THEN UNCHANGED <<csv, xml>>
           ELSE /\ xml' = [exists |-> TRUE, ids |-> SeqRange(f.kept), doi |-> {}, pmc |-> {}]
                \* parse_and_save_articles_csv writes no file for no article
                /\ csv' = IF f.kept = <<>> THEN csv
                          ELSE NewLedger(SeqRange(f.kept))
        /\ op' = "fetch"
        /\ UNCHANGED <<pdfs, teis, tables, report, stats, scr, retr, conv, ext, cli, srch,
                      prs, qry, svc, dir>>

UiFetch == UiFetchIn(Years)

\* main.py, from "if not pmids" to the hand-over to the screening step; with
\* no payload the run goes straight to step 5 (extraction) and the report
CliFetch ==
  \E n \in 0..NumArticles, answer \in FetchAnswers :
  \E years \in FetchYears(n, answer) :
  \E test \in (IF n > 0 /\ answer = "None" THEN TestAnswers ELSE {"ok"}) :
  \E pa \in (IF n > 0 /\ answer = "None" /\ test = "ok"
             THEN ExtractAnswers(teis, PicoAnswers) ELSE ExtractAnswers({}, PicoAnswers)) :
    LET data == fetch_abstracts(n, answer)
        parse == ET_fromstring(data)
        f == IF parse = "none" THEN FilterByYear(years)
             ELSE [raised |-> parse, kept |-> <<>>]
        t == get_completion(test)
        pico == ExtractPico(teis, pa, tables.pico)
        rec == [called |-> TRUE, by |-> "cli", pmids |-> n, answer |-> answer,
                years |-> years, kept |-> <<>>, raised |-> "none", next |-> "none"]
    IN  /\ op' = "fetch"
        /\ UNCHANGED <<pdfs, teis, stats, scr, retr, conv, cli, srch, prs, qry, svc, dir>>
        /\ IF n = 0
           THEN \* "No articles found after user selection": return
                /\ fetch' = rec /\ exc' = "none"
                /\ UNCHANGED <<csv, xml, tables, report, ext>>
           ELSE IF data = "None"
           THEN \* "if articles_xml:" is skipped, step 5 follows
                /\ UNCHANGED <<csv, xml>>
                /\ IF t.raised # "none"
                   THEN /\ fetch' = [rec EXCEPT !.next = "extraction"]
                        /\ exc' = t.raised
                        /\ UNCHANGED <<tables, report, ext>>
                   ELSE IF t.content = "None"
                   THEN \* "LLM client is not connected": return
                        /\ fetch' = [rec EXCEPT !.next = "extraction"]
                        /\ exc' = "none"
                        /\ UNCHANGED <<tables, report, ext>>
                   ELSE /\ fetch' = [rec EXCEPT !.next = "extraction"]
                        /\ ext' = [NoExt EXCEPT !.pico = pico.judged, !.picoRows = pico.rows]
                        /\ tables' = [tables EXCEPT !.pico = pico.table]
                        /\ exc' = pico.raised
                        /\ report' = IF pico.raised = "none" THEN generate_report(stats)
                                     ELSE report
           ELSE IF f.raised # "none"
           THEN /\ fetch' = [rec EXCEPT !.raised = f.raised]
                /\ exc' = f.raised
                /\ UNCHANGED <<csv, xml, tables, report, ext>>
           ELSE IF f.kept = <<>>
           THEN \* "No articles found after filtering by publication year": return
                /\ fetch' = rec /\ exc' = "none"
                /\ UNCHANGED <<csv, xml, tables, report, ext>>
           ELSE /\ fetch' = [rec EXCEPT !.kept = f.kept, !.next = "screening"]
                /\ xml' = [exists |-> TRUE, ids |-> SeqRange(f.kept), doi |-> {}, pmc |-> {}]
                /\ csv' = NewLedger(SeqRange(f.kept))
                /\ exc' = "none"
                /\ UNCHANGED <<tables, report, ext>>

NextFetch == UiFetch \/ CliFetch

SpecFetch == InitFetch /\ [][NextFetch]_vars

----------------------------------------------------------------------------
(* Reading the judge's output: the three places that take a JSON object    *)
(* out of a completion (main.py step 5, app.py tab 3, assessor.py).  A     *)
(* completion is a sequence of tokens: a run of prose without braces       *)
(* ("p"), an opening or closing brace, the text of an object's members     *)
(* between its braces (one token, named after the keys it holds), an       *)
(* opening fence ```json ("[[") and a closing fence ``` ("]]").            *)

\* the longest completion considered
MaxTokens == 5

\* members: the five keys with string values; study_design absent; a sixth
\* key; the five keys with outcome null
Members == {"five", "four", "six", "null"}
Tokens == {"p", "{", "}", "[[", "]]"} \cup Members
Completions == UNION {[1..n -> Tokens] : n \in 0..MaxTokens}

PicoKeys == {"population", "intervention", "comparison", "outcome", "study_design"}

\* the keys of the object a members text denotes, and those whose value is null
KeysOf(m) ==
  CASE m = "five" -> [keys |-> PicoKeys, nulls |-> {}]
    [] m = "four" -> [keys |-> PicoKeys \ {"study_design"}, nulls |-> {}]
    [] m = "six" -> [keys |-> PicoKeys \cup {"notes"}, nulls |-> {}]
    [] m = "null" -> [keys |-> PicoKeys, nulls |-> {"outcome"}]
    [] OTHER -> [keys |-> {}, nulls |-> {}]

NoObject == [ok |-> FALSE, from |-> 0, to |-> 0, keys |-> {}, nulls |-> {}]

\* json.loads(text[from..to]) giving a dict: the text is one object, its
\* braces around nothing or around one members text
json_loads(text, from, to) ==
  LET n == to - from + 1
  IN  IF /\ n \in {2, 3} /\ from >= 1 /\ to <= Len(text)
         /\ text[from] = "{" /\ text[to] = "}"
         /\ (n = 3 => text[from + 1] \in Members)
      THEN [ok |-> TRUE, from |-> from, to |-> to,
            keys |-> IF n = 3 THEN KeysOf(text[from + 1]).keys ELSE {},
            nulls |-> IF n = 3 THEN KeysOf(text[from + 1]).nulls ELSE {}]
      ELSE NoObject

Positions(text, toks) == {i \in 1..Len(text) : text[i] \in toks}
MinOf(S) == CHOOSE x \in S : \A y \in S : x <= y
MaxOf(S) == CHOOSE x \in S : \A y \in S : x >= y

\* re.search(r"({[\s\S]*})", text) then json.loads(match.group(1)): from the
\* first opening brace to the last closing brace of the whole text
GreedyObject(text) ==
  LET opens == Positions(text, {"{"})
      closes == Positions(text, {"}"})
  IN  IF opens = {} \/ closes = {} THEN NoObject
      ELSE IF MinOf(opens) > MaxOf(closes) THEN NoObject
      ELSE json_loads(text, MinOf(opens), MaxOf(closes))

\* main.py: the inside of the first ```json ... ``` if there is one, else
\* text[text.find('{') : text.rfind('}') + 1]
FencedObject(text) ==
  LET fences == Positions(text, {"[["})
      first == MinOf(fences)
      marks == Positions(text, {"[[", "]]"})
      ends == {j \in marks : j > first}
  IN  IF fences # {} /\ ends # {}
      THEN json_loads(text, first + 1, MinOf(ends) - 1)
      ELSE LET opens == Positions(text, {"{"})
               closes == Positions(text, {"}"})
           IN  IF opens = {} \/ closes = {} THEN NoObject
               ELSE json_loads(text, MinOf(opens), MaxOf(closes))

\* the row appended for an article: the object's keys and the article id
RowOf(obj) == [recorded |-> obj.ok,
               keys |-> IF obj.ok THEN obj.keys \cup {"pmid"} ELSE {},
               nulls |-> obj.nulls]

InitParse ==
  /\ csv = NoCsv /\ xml = NoXml
  /\ pdfs = [i \in Pmids |-> "none"]
  /\ teis = {}
  /\ tables = [pico |-> FALSE, rob |-> FALSE, screening |-> FALSE]
  /\ report = NoReport
  /\ stats = ZeroStats
  /\ exc = "none"
  /\ op = "init"
  /\ scr = NoScr
  /\ retr = NoRetr
  /\ conv = NoConv
  /\ ext = NoExt
  /\ cli = NoCli
  /\ srch = NoSrch
  /\ fetch = NoFetch
  /\ \E out \in Completions : prs = [called |-> FALSE, out |-> out]
  /\ qry = NoQry
  /\ svc = NoSvc
  /\ dir = NoDir

\* the completion read by the three sites
ParseStage ==
  /\ ~prs.called
  /\ LET out == prs.out
     IN  prs' = [called |-> TRUE, out |-> out,
                 cli |-> FencedObject(out),
                 ui |-> GreedyObject(out),
                 rob |-> GreedyObject(out),
                 cliRow |-> RowOf(FencedObject(out)),
                 uiRow |-> RowOf(GreedyObject(out))]
  /\ op' = "parse"
  /\ UNCHANGED <<csv, xml, pdfs, teis, tables, report, stats, exc, scr, retr, conv, ext,
                 cli, srch, fetch, qry, svc, dir>>

NextParse == ParseStage

SpecParse == InitParse /\ [][NextParse]_vars

----------------------------------------------------------------------------
(* The query builders on their own, over every research question.          *)

InitQuery ==
  /\ csv = NoCsv /\ xml = NoXml
  /\ pdfs = [i \in Pmids |-> "none"]
  /\ teis = {}
  /\ tables = [pico |-> FALSE, rob |-> FALSE, screening |-> FALSE]
  /\ report = NoReport
  /\ stats = ZeroStats
  /\ exc = "none"
  /\ op = "init"
  /\ scr = NoScr
  /\ retr = NoRetr
  /\ conv = NoConv
  /\ ext = NoExt
  /\ cli = NoCli
  /\ srch = NoSrch
  /\ fetch = NoFetch
  /\ prs = NoPrs
  /\ \E picos \in Picos : qry = [called |-> FALSE, picos |-> picos]
  /\ svc = NoSvc
  /\ dir = NoDir

BuildQuery ==
  /\ ~qry.called
  /\ qry' = [called |-> TRUE, picos |-> qry.picos,
             cli |-> construct_search_query(qry.picos),
             ui |-> construct_search_query_ui(qry.picos)]
  /\ op' = "query"
  /\ UNCHANGED <<csv, xml, pdfs, teis, tables, report, stats, exc, scr, retr, conv, ext,
                 cli, srch, fetch, prs, svc, dir>>

NextQuery == BuildQuery

SpecQuery == InitQuery /\ [][NextQuery]_vars

----------------------------------------------------------------------------
(* The calls to external services, one at a time, as the stage functions   *)
(* make them: the program starts a call and waits; the service may         *)
(* answer; the timer of a call made with a timeout ends the wait (the      *)
(* call raises, and the caller goes on); after its calls the run ends.     *)

\* the most calls a run makes
MaxCalls == 6

\* esearch, efetch, Unpaywall, the PDF download, PMC, GROBID, the LLM server
Services == {"search", "fetch", "resolver", "download", "pmc", "conversion", "judge"}

\* the calls the source gives a timeout argument: requests.get(url,
\* timeout=20), requests.get(pdf_url, stream=True, timeout=60),
\* requests.post(fetch_url, ..., timeout=timeout)
ExplicitTimeout == {"resolver", "download", "pmc"}

\* openai.OpenAI(base_url=..., api_key=...) is built without a timeout and
\* so waits no longer than the library's default
LibraryTimeout == {"judge"}

InitCalls ==
  /\ csv = NoCsv /\ xml = NoXml
  /\ pdfs = [i \in Pmids |-> "none"]
  /\ teis = {}
  /\ tables = [pico |-> FALSE, rob |-> FALSE, screening |-> FALSE]
  /\ report = NoReport
  /\ stats = ZeroStats
  /\ exc = "none"
  /\ op = "init"
  /\ scr = NoScr
  /\ retr = NoRetr
  /\ conv = NoConv
  /\ ext = NoExt
  /\ cli = NoCli
  /\ srch = NoSrch
  /\ fetch = NoFetch
  /\ prs = NoPrs
  /\ qry = NoQry
  /\ svc = NoSvc
  /\ dir = NoDir

CallsFrame ==
  UNCHANGED <<csv, xml, pdfs, teis, tables, report, stats, exc, op, scr, retr, conv, ext,
              cli, srch, fetch, prs, qry, dir>>

\* the program sends a request and waits for the response
StartCall ==
  /\ svc.state = "idle" /\ svc.made < MaxCalls
  /\ \E s \in Services :
       svc' = [state |-> "waiting", service |-> s, made |-> svc.made + 1, outcome |-> "none"]
  /\ CallsFrame

\* the service answers
Answer ==
  /\ svc.state = "waiting"
  /\ svc' = [svc EXCEPT !.state = "returned", !.outcome = "answer"]
  /\ CallsFrame

\* the timer of the call ends the wait: requests.exceptions.Timeout or
\* openai.APITimeoutError, both caught by the caller
TimeoutFires ==
  /\ svc.state = "waiting"
  /\ svc.service \in ExplicitTimeout \cup LibraryTimeout
  /\ svc' = [svc EXCEPT !.state = "returned", !.outcome = "timeout"]
  /\ CallsFrame

\* the caller goes on with the response or the failure
Resume ==
  /\ svc.state = "returned"
  /\ svc' = [svc EXCEPT !.state = "idle", !.service = "none", !.outcome = "none"]
  /\ CallsFrame

\* the stage, and the run, end
EndRun ==
  /\ svc.state = "idle"
  /\ svc' = [svc EXCEPT !.state = "done"]
  /\ CallsFrame

NextCalls == StartCall \/ Answer \/ TimeoutFires \/ Resume \/ EndRun

\* The program's own steps are taken when they can be (it is one sequential
\* process that nothing else stops), and a timer that was set fires; nothing
\* obliges a service to answer.
SpecCalls ==
  /\ InitCalls /\ [][NextCalls]_vars
  /\ WF_vars(StartCall \/ Resume \/ EndRun)
  /\ WF_vars(TimeoutFires)

----------------------------------------------------------------------------
(* The risk-of-bias rows: what batch_assess_rob records of the object the  *)
(* judge returned for one converted text.  The object maps the domain     *)
(* names the judge chose to its details: an object with a level           *)
(* (whatever text the judge wrote), an object without one ("nolevel"), or *)
(* a value that is no object ("flat").                                    *)

\* the five domains the prompt names
RobDomains == {"Randomization", "Deviations", "Missing data", "Measurement", "Reporting"}

\* the levels the prompt asks for: "Low", "High", or "Unclear/Some Concerns"
PromptLevels == {"Low", "High", "Unclear/Some Concerns"}

\* the details the judge can give for a domain, "absent" when its object
\* does not hold the domain
Details == {"absent", "nolevel", "flat", "Unclear"} \cup PromptLevels

\* the objects the judge can return: details for the five domains, with or
\* without a domain of its own ("Overall")
Assessments == [domains : [RobDomains -> Details], overall : Details]

\* assessment.items()
ItemsOf(a) ==
  {[domain |-> d, details |-> a.domains[d]] : d \in {x \in RobDomains : a.domains[x] # "absent"}}
  \cup (IF a.overall # "absent" THEN {[domain |-> "Overall", details |-> a.overall]} ELSE {})

\* the columns of flat_result for one item: <domain>_Level and
\* <domain>_Explanation for an object (details.get('level', 'Unclear')),
\* else the column <domain> with str(details)
ColumnsOf(item) ==
  IF item.details = "flat"
  THEN {[domain |-> item.domain, column |-> "flat", value |-> "str"]}
  ELSE {[domain |-> item.domain, column |-> "Level",
         value |-> IF item.details = "nolevel" THEN "Unclear" ELSE item.details],
        [domain |-> item.domain, column |-> "Explanation", value |-> "text"]}

\* the body of the loop of batch_assess_rob for one assessment: nothing is
\* recorded for None or an empty object
FlattenAssessment(a) ==
  IF ItemsOf(a) = {}
  THEN [recorded |-> FALSE, columns |-> {}]
  ELSE [recorded |-> TRUE, columns |-> UNION {ColumnsOf(item) : item \in ItemsOf(a)}]

InitRob ==
  /\ csv = NoCsv /\ xml = NoXml
  /\ pdfs = [i \in Pmids |-> "none"]
  /\ teis = {1}
  /\ tables = [pico |-> FALSE, rob |-> FALSE, screening |-> FALSE]
  /\ report = NoReport
  /\ stats = ZeroStats
  /\ exc = "none"
  /\ op = "init"
  /\ scr = NoScr
  /\ retr = NoRetr
  /\ conv = NoConv
  /\ ext = NoExt
  /\ cli = NoCli
  /\ srch = NoSrch
  /\ fetch = NoFetch
  /\ \E a \in Assessments : prs = [called |-> FALSE, assessment |-> a]
  /\ qry = NoQry
  /\ svc = NoSvc
  /\ dir = NoDir

\* batch_assess_rob over the one converted text, the judge returning the object
AssessStage ==
  /\ ~prs.called
  /\ LET flat == FlattenAssessment(prs.assessment)
     IN  /\ prs' = [called |-> TRUE, assessment |-> prs.assessment,
                    recorded |-> flat.recorded, columns |-> flat.columns]
         /\ tables' = [tables EXCEPT !.rob = flat.recorded]
  /\ op' = "rob"
  /\ UNCHANGED <<csv, xml, pdfs, teis, report, stats, exc, scr, retr, conv, ext,
                 cli, srch, fetch, qry, svc, dir>>

NextRob == AssessStage

SpecRob == InitRob /\ [][NextRob]_vars

----------------------------------------------------------------------------
(* clear_generated_data_files, entry by entry.  An entry of a data         *)
(* directory is a file or a directory with a name and an extension; the    *)
(* operating system refuses to remove the entries that are locked (a file  *)
(* in use, a file without write permission).  The coordinators'            *)
(* clear_generated_data_files(d) above is this function when nothing is    *)
(* locked, on the files the stages read.                                   *)

DataDirs == {"raw", "tables", "pdf", "tei"}

Entry(d, n, e, k) == [dir |-> d, name |-> n, ext |-> e, kind |-> k]

DirEntries ==
  {Entry("raw", "articles", ".xml", "file"),
   Entry("raw", "readme", ".md", "file"),
   Entry("tables", "retrieved_pmids", ".csv", "file"),
   Entry("tables", "articles", ".csv", "file"),
   Entry("tables", "extracted_pico", ".csv", "file"),
   Entry("pdf", "1", ".pdf", "file"),
   Entry("pdf", "2", ".PDF", "file"),
   Entry("pdf", "readme", ".md", "file"),
   Entry("pdf", "old", ".pdf", "directory"),
   Entry("tei", "1", ".xml", "file")}

\* str.lower() on an extension
Lower(suffix) == IF suffix = ".PDF" THEN ".pdf" ELSE suffix

\* files_to_delete
files_to_delete ==
  {Entry("raw", "articles", ".xml", "file"),
   Entry("tables", "retrieved_pmids", ".csv", "file"),
   Entry("tables", "articles", ".csv", "file")}

\* a clearing that removes the document directory with all it holds
ClearByRmtree(entries, dirs, locked) ==
  [entries |-> {e \in entries : e.dir # "pdf"}, dirs |-> dirs \ {"pdf"}]

\* clear_generated_data_files(): os.remove, inside its own try, for each of
\* files_to_delete that exists and for each item of PDF_DIR that is a file
\* whose lower-cased name ends with .pdf
ClearFiles(entries, dirs, locked) ==
  LET listed == IF "pdf" \in dirs THEN {e \in entries : e.dir = "pdf"} ELSE {}
      tried == (files_to_delete \cap entries)
               \cup {e \in listed : e.kind = "file" /\ Lower(e.ext) = ".pdf"}
  IN  [entries |-> entries \ (tried \ locked), dirs |-> dirs]

InitClear ==
  /\ csv = NoCsv /\ xml = NoXml
  /\ pdfs = [i \in Pmids |-> "none"]
  /\ teis = {}
  /\ tables = [pico |-> FALSE, rob |-> FALSE, screening |-> FALSE]
  /\ report = NoReport
  /\ stats = ZeroStats
  /\ exc = "none"
  /\ op = "init"
  /\ scr = NoScr
  /\ retr = NoRetr
  /\ conv = NoConv
  /\ ext = NoExt
  /\ cli = NoCli
  /\ srch = NoSrch
  /\ fetch = NoFetch
  /\ prs = NoPrs
  /\ qry = NoQry
  /\ svc = NoSvc
  /\ \E dirs \in {DataDirs, DataDirs \ {"pdf"}} :
     \E entries \in SUBSET {e \in DirEntries : e.dir \in dirs} :
     \E locked \in SUBSET entries :
        dir = [cleared |-> FALSE, entries |-> entries, dirs |-> dirs, locked |-> locked]

ClearStage ==
  /\ ~dir.cleared
  /\ LET c == ClearFiles(dir.entries, dir.dirs, dir.locked)
     IN  dir' = [cleared |-> TRUE, entries |-> c.entries, dirs |-> c.dirs,
                 locked |-> dir.locked, before |-> dir.entries, dirsBefore |-> dir.dirs]
  /\ op' = "clear"
  /\ UNCHANGED <<csv, xml, pdfs, teis, tables, report, stats, exc, scr, retr, conv, ext,
                 cli, srch, fetch, prs, qry, svc>>

NextClear == ClearStage

SpecClear == InitClear /\ [][NextClear]_vars

----------------------------------------------------------------------------
(* main.py, from step 2.5 to the end of main(): one command-line run after  *)
(* the ledger and the payload were written.  cli.step is the step the run   *)
(* is about to execute, named as in the source ("2.5", "3", "3.5", "3.6",   *)
(* "5", "7"), or "exit" once main() has returned or an exception has ended  *)
(* it.                                                                      *)

InitRun ==
  /\ \E ids \in (SUBSET Pmids) \ {{}} :
     \E d \in SUBSET ids, p \in SUBSET ids :
       /\ xml = [exists |-> TRUE, ids |-> ids, doi |-> d, pmc |-> p]
       /\ csv = NewLedger(ids)
       /\ cli = [NoCli EXCEPT !.outcome = "running", !.step = "2.5",
                              !.stats.total_found = Cardinality(ids)]
  /\ pdfs = [i \in Pmids |-> "none"]
  /\ teis \in {{}, Pmids}
  /\ tables = [pico |-> FALSE, rob |-> FALSE, screening |-> FALSE]
  /\ report = NoReport
  /\ stats = ZeroStats
  /\ exc = "none"
  /\ op = "init"
  /\ scr = NoScr
  /\ retr = NoRetr
  /\ conv = NoConv
  /\ ext = NoExt
  /\ srch = NoSrch
  /\ fetch = NoFetch
  /\ prs = NoPrs
  /\ qry = NoQry
  /\ svc = NoSvc
  /\ dir = NoDir

\* an uncaught exception ends main()
Raised(e) == [cli EXCEPT !.step = "exit", !.outcome = "exception"]

\* step 2.5: screen the ledger, save it, report and return with no Included
RunScreen ==
  /\ cli.step = "2.5"
  /\ \E test \in TestAnswers :
     \E answers \in (IF test = "ok" THEN ScreenAnswers(csv, CoordJudgeAnswers)
                     ELSE ScreenAnswers(csv, {"none"})) :
       LET r == screen_abstracts(csv, test, answers)
           n == Cardinality(r.df.rows)
           inc == Cardinality(IncludedPmids(r.df))
           st == [cli.stats EXCEPT !.screened = n, !.included = inc, !.excluded = n - inc]
       IN  /\ scr' = r.call
           /\ IF r.call.raised # "none"
              THEN /\ exc' = r.call.raised
                   /\ cli' = Raised(r.call.raised)
                   /\ UNCHANGED <<csv, tables, report>>
              ELSE /\ csv' = r.df
                   /\ tables' = [tables EXCEPT !.screening = TRUE]
                   /\ exc' = "none"
                   /\ IF IncludedPmids(r.df) = {}
                      THEN /\ report' = generate_report(st)
                           /\ cli' = [cli EXCEPT !.stats = st, !.step = "exit",
                                                 !.outcome = "no included", !.report = TRUE]
                      ELSE /\ report' = report
                           /\ cli' = [cli EXCEPT !.stats = st, !.step = "3"]
  /\ op' = "cli"
  /\ UNCHANGED <<xml, pdfs, teis, stats, retr, conv, ext, srch, fetch, prs, qry, svc, dir>>

\* step 3: download the documents of the Included records, note the statuses
RunDownload ==
  /\ cli.step = "3"
  /\ \E answers \in RetrAnswers(xml, pdfs, IncludedPmids(csv), CoordRetrAnswers) :
       LET d == download_pdfs_from_xml(xml, pdfs, IncludedPmids(csv), answers)
       IN  /\ retr' = d.call
           /\ pdfs' = d.pdfs
           /\ IF d.call.raised # "none"
              THEN /\ exc' = d.call.raised
                   /\ cli' = Raised(d.call.raised)
                   /\ csv' = csv
              ELSE /\ exc' = "none"
                   /\ csv' = [csv EXCEPT !.status = d.call.returned]
                   /\ cli' = [cli EXCEPT !.step = "3.5"]
  /\ op' = "cli"
  /\ UNCHANGED <<xml, teis, tables, report, stats, scr, conv, ext, srch, fetch, prs, qry,
                svc, dir>>

\* step 3.5: submit every downloaded document to the converter
RunConvert ==
  /\ cli.step = "3.5"
  /\ LET downloaded == {i \in Pmids : IsSuccessCli(retr.returned[i])}
         c == ConversionLoop(downloaded)
     IN  /\ conv' = c
         /\ exc' = c.raised
         /\ cli' = IF c.raised # "none"
                   THEN [Raised(c.raised) EXCEPT !.stats.retrieved = Cardinality(downloaded)]
                   ELSE [cli EXCEPT !.stats.retrieved = Cardinality(downloaded),
                                    !.step = "3.6"]
  /\ op' = "cli"
  /\ UNCHANGED <<csv, xml, pdfs, teis, tables, report, stats, scr, retr, ext, srch, fetch,
                prs, qry, svc, dir>>

\* step 3.6: the risk of bias of every file of the TEI directory
RunRob ==
  /\ cli.step = "3.6"
  /\ \E ra \in ExtractAnswers(teis, RobAnswers) :
       LET rob == IF teis # {} THEN batch_assess_rob(teis, ra, tables.rob)
                  ELSE [assessed |-> {}, rows |-> {}, table |-> tables.rob]
       IN  /\ ext' = [ext EXCEPT !.rob = rob.assessed, !.robRows = rob.rows]
           /\ tables' = [tables EXCEPT !.rob = rob.table]
  /\ exc' = "none"
  /\ cli' = [cli EXCEPT !.step = "5"]
  /\ op' = "cli"
  /\ UNCHANGED <<csv, xml, pdfs, teis, report, stats, scr, retr, conv, srch, fetch, prs, qry,
                svc, dir>>

\* step 5: probe the judge, return when it does not answer, else extract
RunExtract ==
  /\ cli.step = "5"
  /\ \E test \in TestAnswers :
     \E pa \in (IF test = "ok" THEN ExtractAnswers(teis, PicoAnswers)
                ELSE ExtractAnswers({}, PicoAnswers)) :
       LET t == get_completion(test)
           pico == ExtractPico(teis, pa, tables.pico)
       IN  IF t.raised # "none"
           THEN /\ exc' = t.raised
                /\ cli' = Raised(t.raised)
                /\ UNCHANGED <<ext, tables>>
           ELSE IF t.content = "None"
           THEN \* "LLM client is not connected. Skipping data extraction.": return
                /\ exc' = "none"
                /\ cli' = [cli EXCEPT !.step = "exit", !.outcome = "LLM not connected"]
                /\ UNCHANGED <<ext, tables>>
           ELSE /\ ext' = [ext EXCEPT !.pico = pico.judged, !.picoRows = pico.rows]
                /\ tables' = [tables EXCEPT !.pico = pico.table]
                /\ exc' = pico.raised
                /\ cli' = IF pico.raised # "none" THEN Raised(pico.raised)
                          ELSE [cli EXCEPT !.step = "7"]
  /\ op' = "cli"
  /\ UNCHANGED <<csv, xml, pdfs, teis, report, stats, scr, retr, conv, srch, fetch, prs, qry,
                svc, dir>>

\* step 7: generate_report(stats, ...)
RunReport ==
  /\ cli.step = "7"
  /\ report' = generate_report(cli.stats)
  /\ cli' = [cli EXCEPT !.step = "exit", !.outcome = "report", !.report = TRUE]
  /\ exc' = "none"
  /\ op' = "cli"
  /\ UNCHANGED <<csv, xml, pdfs, teis, tables, stats, scr, retr, conv, ext, srch, fetch, prs,
                qry, svc, dir>>

NextRun == RunScreen \/ RunDownload \/ RunConvert \/ RunRob \/ RunExtract \/ RunReport

SpecRun == InitRun /\ [][NextRun]_vars

----------------------------------------------------------------------------
(* app.py : the handlers of the page in any order, the search taken from   *)
(* the point where the identifiers were obtained (UiFetch), over an empty  *)
(* data directory                                                          *)

InitUi ==
  /\ csv = NoCsv
  /\ xml = NoXml
  /\ pdfs = [i \in Pmids |-> "none"]
  /\ teis = {}
  /\ tables = [pico |-> FALSE, rob |-> FALSE, screening |-> FALSE]
  /\ report = NoReport
  /\ stats = ZeroStats
  /\ exc = "none"
  /\ op = "init"
  /\ scr = NoScr
  /\ retr = NoRetr
  /\ conv = NoConv
  /\ ext = NoExt
  /\ cli = NoCli
  /\ srch = NoSrch
  /\ fetch = NoFetch
  /\ prs = NoPrs
  /\ qry = NoQry
  /\ svc = NoSvc
  /\ dir = NoDir

\* a <Year> value for each effect on what the search saves: the record is
\* kept, the record is dropped
CoordYears == {[kind |-> "digits", val |-> CurrentYear], [kind |-> "text", val |-> 0]}

NextUi == UiFetchIn(CoordYears) \/ UiScreen \/ UiPipeline \/ UiReport \/ UiReset

SpecUi == InitUi /\ [][NextUi]_vars

----------------------------------------------------------------------------
(* Claims *)

\* C1: in every reachable state of the run statistics, of the UI session and
\* of a command-line run, excluded + included = screened and
\* retrieved <= included, so that the report's "not retrieved" count
\* (included - retrieved) is never negative.
C1_FunnelInvariant ==
  /\ stats.excluded + stats.included = stats.screened
  /\ stats.retrieved <= stats.included
  /\ generate_prisma_mermaid(stats).not_retrieved >= 0
  /\ cli.stats.excluded + cli.stats.included = cli.stats.screened
  /\ cli.stats.retrieved <= cli.stats.included

\* C2: risk-of-bias assessment and PICO extraction are performed, in a
\* pipeline run, only for the PMIDs that in the same run were decided
\* Included, got a successful retrieval status and were converted; a text of
\* data/tei left by an earlier run, or from before a reset, never reaches
\* extraction.
C2_ExtractionOnlyConvertedThisRun ==
  op = "pipeline" =>
    \A i \in ext.rob \cup ext.pico :
      /\ i \in csv.rows /\ csv.decision[i] = "Included"
      /\ retr.returned[i] \in {"Already Downloaded", "Downloaded (Unpaywall)",
                               "Downloaded (PMC)"}
      /\ i \in conv.converted

\* C3: the retrieval stage attempts sources, and returns a status, only for
\* the records whose screening decision is Included (an Excluded record has no
\* attempt and no status), and the conversion service is called only for
\* PMIDs whose retrieval status is "Already Downloaded" or "Downloaded (...)".
C3_RetrievalOnlyIncluded ==
  op = "pipeline" =>
    /\ \A i \in Pmids :
         (i \in retr.reached \/ retr.log[i] # <<>> \/ retr.status[i] # NoStatus
            \/ retr.returned[i] # NoStatus)
         => (i \in csv.rows /\ csv.decision[i] = "Included")
    /\ \A i \in conv.submitted :
         retr.returned[i] \in {"Already Downloaded", "Downloaded (Unpaywall)",
                               "Downloaded (PMC)"}

\* C3, its case: a pipeline run over a ledger with an Excluded and an Included
\* record, the Included one downloaded and submitted to conversion.
C3_Witness ==
  /\ op = "pipeline"
  /\ \E i \in csv.rows, j \in csv.rows :
       /\ csv.decision[i] = "Excluded"
       /\ csv.decision[j] = "Included"
       /\ j \in retr.reached /\ retr.log[j] # <<>>
       /\ retr.returned[j] = "Downloaded (PMC)"
       /\ j \in conv.submitted

\* C4: every command-line run the operator did not abort, and in which no
\* record reaches Included, ends with a report written.
C4_ReportWhenNoneIncluded ==
  (/\ op = "cli"
   /\ cli.outcome \notin {"kept previous data", "stopped by user"}
   /\ cli.stats.included = 0)
  => cli.report

\* C5: for every record for which the judge raises, returns nothing or
\* returns text without a parsable block, screen_abstracts still returns and
\* the record's decision is Included with a reason that names the failure;
\* also when the judge fails on the first call the stage makes.
C5_BiasToInclude ==
  scr.called =>
    \A i \in scr.rows :
      (scr.test \in {"raise", "none"}
         \/ scr.answer[i] \in {"raise", "none", "nojson", "badjson"})
      => /\ scr.raised = "none"
         /\ scr.decision[i] = "Included"
         /\ scr.reason[i] \in {"LLM Unavailable", "Error during screening",
                               "No response from LLM", "No JSON found in response",
                               "JSON Decode Error"}

\* C6: screening a ledger that the same session has just screened, with the
\* judge giving the same answers, leaves every record's decision as it was,
\* the ledger with one screening_decision column, and the session's
\* statistics as they were; the handler returns.
C6_RescreenIdempotent ==
  [][ (/\ op = "screen" /\ exc = "none" /\ scr.raised = "none"
       /\ csv.cols = "plain"
       /\ op' = "screen"
       /\ scr'.test = scr.test /\ scr'.answer = scr.answer)
      => (/\ exc' = "none"
          /\ csv'.rows = csv.rows
          /\ DecisionColumns(csv'.cols) = 1
          /\ \A i \in csv.rows : csv'.decision[i] = csv.decision[i]
          /\ stats' = stats) ]_vars

\* C7: when PubMed's search fails or finds nothing, the count probe gives the
\* coordinator an empty id list and a zero count as a pair, and no exception
\* reaches the coordinator.
C7_SearchDegradesToEmpty ==
  (srch.called /\ (srch.answer.fail \/ srch.answer.n = 0))
  => /\ srch.raised = "none"
     /\ exc = "none"
     /\ Len(srch.ids) = 2
     /\ UnpackPair(srch.ids).second = 0

\* C8: download_pdfs_from_xml returns one status for every allowed (Included)
\* record of the payload, whatever fails for a record: missing identifiers,
\* resolver errors, download errors, file-write errors.
C8_StatusForEveryIncluded ==
  (op = "retrieve" /\ retr.called) =>
    /\ retr.raised = "none"
    /\ \A i \in xml.ids \cap retr.allowed : retr.returned[i] # NoStatus

\* C9: for a record without a local file whose Unpaywall step fails (resolver
\* error, no open-access link, download error) or is skipped for want of a DOI,
\* PMC is attempted whenever the record carries a PMC id.
C9_PmcAttemptedAfterFailure ==
  (op = "retrieve" /\ retr.called) =>
    \A i \in retr.reached :
      (/\ retr.status[i] # "Already Downloaded"
       /\ i \in xml.pmc
       /\ \/ i \notin xml.doi
          \/ \E k \in 1..Len(retr.log[i]) :
               \/ /\ retr.log[i][k].src = "Unpaywall"
                  /\ retr.log[i][k].res \in {"error", "nolink"}
               \/ /\ retr.log[i][k].src = "UnpaywallDownload"
                  /\ retr.log[i][k].res \in {"reqerr", "partial", "oserror"})
      => \E k \in 1..Len(retr.log[i]) : retr.log[i][k].src = "PMC"

\* C10: for each record processed without a local file, the calls made are, in
\* this order, the Unpaywall resolver, the download of its link, the PMC
\* fetch, each at most once; no call follows a successful download; and the
\* status "Downloaded (Unpaywall)" / "Downloaded (PMC)", as the loop records it
\* and as the stage returns it, names the source whose download succeeded.
C10_ChainOrder ==
  (op = "retrieve" /\ retr.called) =>
    \A i \in retr.reached :
      LET log == retr.log[i]
          n == Len(log)
          srcs == [k \in 1..n |-> log[k].src]
          success(k) == /\ log[k].src \in {"UnpaywallDownload", "PMC"}
                        /\ log[k].res = "ok"
      IN  retr.status[i] # "Already Downloaded" =>
            /\ srcs \in {<<>>, <<"Unpaywall">>, <<"PMC">>,
                         <<"Unpaywall", "UnpaywallDownload">>,
                         <<"Unpaywall", "PMC">>,
                         <<"Unpaywall", "UnpaywallDownload", "PMC">>}
            /\ (n >= 1 /\ log[1].src = "Unpaywall") => i \in xml.doi
            /\ \A k \in 1..n : log[k].src = "PMC" => i \in xml.pmc
            /\ \A k \in 1..n : success(k) => k = n
            /\ retr.status[i] = "Downloaded (Unpaywall)"
                 <=> (n >= 1 /\ log[n].src = "UnpaywallDownload" /\ success(n))
            /\ retr.status[i] = "Downloaded (PMC)"
                 <=> (n >= 1 /\ log[n].src = "PMC" /\ success(n))
            /\ retr.returned[i] \in {NoStatus, retr.status[i]}

\* C10, its case: a batch in which one record got its file from Unpaywall
\* with no PMC call though it has a PMC id, and another from PMC after the
\* Unpaywall download failed.
C10_Witness ==
  /\ op = "retrieve" /\ retr.called /\ retr.raised = "none"
  /\ \E i \in retr.reached, j \in retr.reached :
       /\ i \in xml.pmc /\ Len(retr.log[i]) = 2
       /\ retr.returned[i] = "Downloaded (Unpaywall)"
       /\ Len(retr.log[j]) = 3 /\ retr.log[j][2].res = "reqerr"
       /\ retr.returned[j] = "Downloaded (PMC)"

\* C11: a record whose file already exists gets "Already Downloaded" and no
\* call to Unpaywall or PMC is made for it, its file is left as it is; hence a
\* second retrieval run for the same records returns a success status for
\* every record for which the first run returned one.
C11_RetrievalIdempotent ==
  [][ (op' = "retrieve" /\ retr'.called)
      => /\ \A i \in retr'.reached :
              pdfs[i] # "none"
              => /\ retr'.status[i] = "Already Downloaded"
                 /\ retr'.log[i] = <<>>
                 /\ pdfs'[i] = pdfs[i]
         /\ (op = "retrieve" /\ retr.called /\ retr.raised = "none"
               /\ retr'.allowed = retr.allowed)
            => \A i \in Pmids :
                 retr.returned[i] \in {"Already Downloaded", "Downloaded (Unpaywall)",
                                       "Downloaded (PMC)"}
                 => retr'.returned[i] \in {"Already Downloaded", "Downloaded (Unpaywall)",
                                           "Downloaded (PMC)"} ]_vars

\* C12: in one retrieval batch, a record for which every step was attempted
\* and failed and a record that carries neither a DOI nor a PMC id (for which
\* no source is called) are returned different statuses.
C12_StatusTaxonomy ==
  (op = "retrieve" /\ retr.called /\ retr.raised = "none") =>
    \A i \in retr.reached, j \in retr.reached :
      (/\ i \in xml.doi /\ i \in xml.pmc
       /\ Len(retr.log[i]) = 3
       /\ \A k \in 1..3 : retr.log[i][k].res # "ok"
       /\ retr.status[j] # "Already Downloaded"
       /\ j \notin xml.doi /\ j \notin xml.pmc)
      => /\ retr.log[j] = <<>>
         /\ retr.returned[i] # retr.returned[j]

\* C13: in the conversion stage of a pipeline run whose retrieval returned,
\* every downloaded PMID whose file exists is submitted to the conversion
\* service, whatever happens for another one, and no exception leaves the
\* stage.
C13_ConversionIsolated ==
  (op = "pipeline" /\ retr.called /\ retr.raised = "none") =>
    /\ conv.raised = "none"
    /\ exc # "AttributeError"
    /\ conv.submitted = {i \in Pmids : IsSuccessUi(retr.returned[i]) /\ pdfs[i] # "none"}

\* C14: in the extraction stage of a pipeline run (reached when retrieval and
\* conversion returned), every converted text is given to the risk-of-bias
\* judge and to the PICO judge, a row is written only for a text that was
\* judged, and no exception leaves the stage, also when the judge call raises.
C14_ExtractionFailsSoft ==
  (op = "pipeline" /\ retr.called /\ retr.raised = "none" /\ conv.raised = "none") =>
    /\ exc = "none"
    /\ ext.rob = teis /\ ext.pico = teis
    /\ ext.robRows \subseteq ext.rob /\ ext.picoRows \subseteq ext.pico

\* C17: a command-line run in which the operator rejects the proposed query
\* ends with the article table, the raw payload and the downloaded documents
\* as they were when the run started, and issues no search call.
C17_RejectLeavesLedger ==
  [][ (op' = "cli" /\ cli'.outcome = "stopped by user")
      => (csv' = csv /\ xml' = xml /\ pdfs' = pdfs /\ ~srch'.called) ]_vars

\* C18: after the reset none of the derived artifacts exists (ledger, raw
\* payload, documents, converted texts, screening results, extracted-fields
\* table, risk-of-bias table, report) and the session's statistics are zero.
C18_ResetClearsAll ==
  op = "reset" =>
    /\ ~csv.exists /\ ~xml.exists
    /\ \A i \in Pmids : pdfs[i] = "none"
    /\ teis = {}
    /\ ~tables.screening /\ ~tables.pico /\ ~tables.rob
    /\ ~report.exists
    /\ stats = ZeroStats

\* C20: screen_abstracts gives every record of the ledger one decision,
\* Included or Excluded, and a reason; the decision is Excluded only when the
\* judge returned a well-formed block whose decision is Excluded, every other
\* answer resolves to Included.
C20_TotalBinary ==
  (scr.called /\ scr.raised = "none") =>
    \A i \in scr.rows :
      /\ scr.decision[i] \in {"Included", "Excluded"}
      /\ scr.reason[i] # NoStatus
      /\ scr.decision[i] = "Excluded" <=> (scr.test = "ok" /\ scr.answer[i] = "excl")

C16_ReportStatsMatchRun ==
  (op = "report" /\ report.exists /\ stats.screened > 0) =>
    /\ stats.screened = Cardinality(csv.rows)
    /\ stats.included = Cardinality({i \in csv.rows : csv.decision[i] = "Included"})
    /\ stats.excluded = Cardinality({i \in csv.rows : csv.decision[i] = "Excluded"})
    /\ stats.retrieved =
         Cardinality({i \in csv.rows : /\ csv.decision[i] = "Included"
                                       /\ IsSuccessUi(csv.status[i])})

\* the first top-level balanced brace-delimited block of a completion:
\* from its first opening brace to the brace that closes it
FirstBalancedBlock(text) ==
  LET opens == Positions(text, {"{"})
      i == MinOf(opens)
      closing == {j \in (i + 1)..Len(text) :
                    /\ text[j] = "}"
                    /\ Cardinality({k \in i..j : text[k] = "{"})
                         = Cardinality({k \in i..j : text[k] = "}"})}
  IN  IF opens = {} THEN [found |-> FALSE, from |-> 0, to |-> 0]
      ELSE IF closing = {} THEN [found |-> FALSE, from |-> 0, to |-> 0]
      ELSE [found |-> TRUE, from |-> i, to |-> MinOf(closing)]

\* C21: when the judge's output holds a well-formed object as its first
\* top-level balanced brace-delimited block, with prose (possibly holding
\* braces or further blocks) around it, each of the three parsing sites
\* selects that block and parses it, so the three select the same block.
C21_FirstBalancedBlockSelected ==
  prs.called =>
    LET b == FirstBalancedBlock(prs.out)
    IN  (b.found /\ json_loads(prs.out, b.from, b.to).ok)
        => /\ prs.cli.ok /\ prs.cli.from = b.from /\ prs.cli.to = b.to
           /\ prs.ui.ok /\ prs.ui.from = b.from /\ prs.ui.to = b.to
           /\ prs.rob.ok /\ prs.rob.from = b.from /\ prs.rob.to = b.to

\* C22: every recorded extracted-fields row holds exactly the five keys
\* population, intervention, comparison, outcome and study_design, plus the
\* article id, each with a string value (never null, absent or extra),
\* whatever object the judge returned.
C22_RowHasExactlyFiveFields ==
  prs.called =>
    \A row \in {prs.cliRow, prs.uiRow} :
       row.recorded => (row.keys = PicoKeys \cup {"pmid"} /\ row.nulls = {})

\* the words of a text: its maximal runs of characters that are not white space
WordCount(text) ==
  Cardinality({i \in 1..Len(text) :
                 /\ text[i] \notin {" ", "\t"}
                 /\ (i = 1 \/ text[i - 1] \in {" ", "\t"})})

\* the term the specification describes for one field
ExpectedTerm(term, tag) ==
  IF ~term.present \/ term.text = <<>> THEN <<>>
  ELSE IF WordCount(term.text) >= 2
  THEN << <<"\"">> \o term.text \o <<"\"", tag>> >>
  ELSE << term.text \o <<tag>> >>

\* C25: the built query holds exactly one term per non-empty field, in the
\* order population, intervention, comparison, outcome, study_design, joined
\* by " AND "; a multi-word term is wrapped in double quotes and a
\* single-word term is not; study_design carries [pt] and the others [tiab];
\* with every field empty or missing the query is the empty string; the
\* command-line builder and the page's builder return the same string.
C25_BuildQuery ==
  qry.called =>
    /\ qry.cli = JoinAnd(ExpectedTerm(qry.picos[1], "[tiab]")
                         \o ExpectedTerm(qry.picos[2], "[tiab]")
                         \o ExpectedTerm(qry.picos[3], "[tiab]")
                         \o ExpectedTerm(qry.picos[4], "[tiab]")
                         \o ExpectedTerm(qry.picos[5], "[pt]"))
    /\ qry.ui = qry.cli

\* C23: the count probe (limit 1) is issued and its total is made known
\* before any full fetch: when the search service answers the probe, the
\* coordinator holds the total the service reported and goes on without an
\* exception (to a full fetch of between 1 and that total ids, or to none
\* when the total is zero).
C23_ProbeTotalKnown ==
  (srch.called /\ ~srch.answer.fail)
  => /\ srch.raised = "none"
     /\ exc = "none"
     /\ (op = "search" => stats.total_found = srch.answer.n)
     /\ (op = "cli" => cli.stats.total_found = srch.answer.n)

\* C24: when every field of the research question is empty, so that the
\* built query is the empty string, the coordinator issues no search call
\* and creates no ledger state.
C24_EmptyQueryNoSearch ==
  ~(srch.called /\ srch.query = <<>>)

\* C26: no counter of the run statistics ever decreases during a run (from
\* one reset or start to the next): a stage's completion may only raise the
\* counters it writes, and nothing else changes them.
C26_StatsNeverDecrease ==
  [][ op' # "reset"
      => \A c \in DOMAIN stats : stats'[c] >= stats[c] ]_vars

\* C27: once the ledger exists, screening and retrieval neither delete nor
\* duplicate a record: after them the ledger holds exactly the ids of the
\* normalized payload, each once; and retrieval, conversion and extraction
\* (the pipeline) leave every record's screening decision as it was.
C27_LedgerRecordsKept ==
  [][ (csv.exists /\ op' \in {"screen", "pipeline"})
      => /\ csv'.exists
         /\ csv'.rows = csv.rows
         /\ csv'.rows = xml'.ids
         /\ \A i \in csv'.rows : csv'.mult[i] = 1
         /\ (op' = "pipeline"
             => /\ csv'.cols = csv.cols
                /\ \A i \in csv.rows : csv'.decision[i] = csv.decision[i]) ]_vars

C27_Witness ==
  /\ op = "pipeline" /\ exc = "none"
  /\ csv.rows = {1, 2}
  /\ csv.decision[1] = "Included" /\ csv.decision[2] = "Excluded"
  /\ csv.status[1] # NoStatus
  /\ csv.mult[1] = 1 /\ csv.mult[2] = 1

\* C28: a record's screening decision depends only on that record and the
\* judge's answer for it: between two screenings with the same answer for a
\* record (and the same answer to the connection test), its decision is the
\* same, whatever the order of the rows, the answers for the other records
\* and the decisions the ledger already holds.
C28_DecisionPerRecord ==
  [][ (/\ scr.called /\ scr.raised = "none"
       /\ scr'.called /\ scr'.raised = "none"
       /\ scr'.test = scr.test)
      => \A i \in scr.rows :
            scr'.answer[i] = scr.answer[i] => scr'.decision[i] = scr.decision[i] ]_vars

C28_Witness ==
  /\ scr.called /\ scr.raised = "none" /\ scr.test = "ok"
  /\ scr.cols = "xy"
  /\ scr.order = <<2, 1>>
  /\ scr.answer[1] = "incl" /\ scr.answer[2] = "excl"
  /\ scr.decision[1] = "Included" /\ scr.decision[2] = "Excluded"

\* C29: the stages of the pipeline run one after another over the whole
\* batch: retrieval is called only when every record of the ledger has its
\* screening decision; a document is submitted to conversion only when
\* every Included record has its retrieval status; extraction is called
\* only when the conversion loop over every downloaded document has ended.
C29_StagesInBatchOrder ==
  /\ retr.called
     => \A i \in csv.rows : csv.decision[i] \in {"Included", "Excluded"}
  /\ conv.submitted # {}
     => /\ retr.called /\ retr.raised = "none"
        /\ \A i \in IncludedPmids(csv) :
              csv.status[i] # NoStatus /\ retr.returned[i] = csv.status[i]
  /\ (ext.rob # {} \/ ext.pico # {})
     => /\ retr.called /\ retr.raised = "none"
        /\ conv.raised = "none"
        /\ conv.submitted = {i \in Pmids : IsSuccessUi(retr.returned[i])}

C29_Witness ==
  /\ op = "pipeline"
  /\ conv.submitted # {}
  /\ IncludedPmids(csv) = {1, 2}
  /\ csv.status[1] # NoStatus /\ csv.status[2] # NoStatus

\* C30: every call to an external service is made with a timeout, so that a
\* service that never answers cannot block a stage forever: every run
\* eventually ends.
C30_RunTerminates == <>(svc.state = "done")

\* C31: every recorded risk-of-bias profile covers the same fixed taxonomy
\* (the five domains of the prompt, and no other column), and the level
\* recorded for each domain is one of Low, High, Unclear, whatever the judge
\* returned.
C31_RobProfileTaxonomy ==
  (prs.called /\ prs.recorded)
  => /\ {c.domain : c \in {x \in prs.columns : x.column = "Level"}} = RobDomains
     /\ \A c \in prs.columns :
           /\ c.column \in {"Level", "Explanation"}
           /\ c.column = "Level" => c.value \in {"Low", "High", "Unclear"}

\* C32: clear_generated_data_files leaves every data directory in place and
\* removes no entry other than the raw payload, the retrieved-id list, the
\* article ledger and the .pdf files of the document directory; and it
\* removes each of those that the system lets it remove, whichever other
\* removal fails.
C32_ClearOnlyGenerated ==
  dir.cleared =>
    LET generated ==
          {e \in DirEntries :
             /\ e.kind = "file"
             /\ \/ (e.dir = "raw" /\ e.name = "articles" /\ e.ext = ".xml")
                \/ (e.dir = "tables" /\ e.name = "retrieved_pmids" /\ e.ext = ".csv")
                \/ (e.dir = "tables" /\ e.name = "articles" /\ e.ext = ".csv")
                \/ (e.dir = "pdf" /\ e.ext \in {".pdf", ".PDF"})}
    IN  /\ dir.dirs = dir.dirsBefore
        /\ dir.entries \subseteq dir.before
        /\ (dir.before \ dir.entries) \subseteq generated
        /\ \A e \in dir.before \cap generated : e \notin dir.locked => e \notin dir.entries

C32_Witness ==
  /\ dir.cleared
  /\ Entry("tables", "articles", ".csv", "file") \in dir.locked \cap dir.entries
  /\ Entry("raw", "articles", ".xml", "file") \in dir.before \ dir.entries
  /\ Entry("pdf", "1", ".pdf", "file") \in dir.before \ dir.entries
  /\ Entry("pdf", "readme", ".md", "file") \in dir.entries
  /\ Entry("pdf", "old", ".pdf", "directory") \in dir.entries

\* C33: after the retrieval stage a document file exists at an article's
\* path only if it was downloaded in full and the article's status is a
\* success status: a download that fails part-way leaves no file, so no
\* later retrieval reports Already Downloaded for a partial document.
C33_NoPartialDocument ==
  (op = "retrieve" /\ retr.called /\ retr.raised = "none")
  => \A i \in Pmids :
        /\ pdfs[i] # "none" => pdfs[i] = "full"
        /\ (i \in retr.reached /\ pdfs[i] # "none") => IsSuccessUi(retr.status[i])
        /\ retr.status[i] = "Already Downloaded" => pdfs[i] = "full"


====
